---- MODULE Spec2Model ----
(***************************************************************************)
(* Model of the piano-roll grid (GridComponent.svelte) and of the scroll   *)
(* state its container (PianoRoll.svelte) mirrors.                         *)
(*                                                                         *)
(* One action per event handler of the grid canvas and of the lyric input. *)
(* Pointer events carry the offset of the pointer inside the canvas        *)
(* (event.clientX - rect.left, event.clientY - rect.top); the handlers add *)
(* the scroll offsets to obtain content coordinates, as the code does.     *)
(* All lengths are pixels; PIXELS_PER_BEAT / 4 and / 8 are exact.          *)
(***************************************************************************)
EXTENDS Integers, Sequences, FiniteSets

\* ---------------------------------------------------------------- constants
NOTE_HEIGHT == 20
TOTAL_NOTES == 128
PIXELS_PER_BEAT == 80
totalMeasures == 32
DefaultVelocity == 100
\* The hot zone with the boundary included (<= 10 instead of < 10).
ResizeHotZone_Inclusive == 10 + 1
ResizeHotZone == 10
\* The zoom limits and step of the container.
MIN_PIXELS_PER_BEAT == 40
MAX_PIXELS_PER_BEAT == 200
ZOOM_STEP == 20
MaxPitch == 127

\* ------------------------------------------------------------------- bounds
\* Number of note ids the session may hand out (Date.now()/Math.random ids
\* are modelled as a counter: every new id differs from all earlier ones).
MaxId == 2
\* Largest start / duration a drag or resize move is followed to.
MaxStart == 40
MaxDuration == 40
\* Largest absolute value snapToGrid is applied to.
MaxSnapInput == 70
\* Longest sequence of pointer events given to the two runs that are compared.
MaxEvents == 3
\* Most pointer moves followed after one press.
MaxMoves == 3

NoId == 0
DefaultLyric == "la"

\* Pointer offsets inside the canvas, <<event.clientX - rect.left,
\* event.clientY - rect.top>>, that events are drawn from.
\* Points: one row (row 0, pitch 127); two points 2px apart that snap to 0,
\* the first 10px from the end of a seed note, and a point that snaps to 20,
\* within the resize hot-zone of a note [0, 20].
Points == {<<0, 2>>, <<2, 2>>, <<14, 2>>}
\* RowPoints: one column; a point above row 0, a point of row 0 and a point
\* below row 127.
RowPoints == {<<2, -5>>, <<2, 2>>, <<2, 2562>>}
\* LyricPoints: where the pointer is pressed, released and double-clicked
\* while lyrics are edited; LyricMovePoints: where it is moved to.
LyricPoints == {<<2, 2>>}
LyricMovePoints == {<<2, 2>>, <<14, 2>>}
EditModes == {"draw", "erase", "select"}
\* DragPoints: one row; a point that snaps to 0, a point 3px to its right
\* and a point 20px to its right.  DragPressPoints: those of them the
\* pointer is pressed at.
DragPoints == {<<2, 2>>, <<5, 2>>, <<22, 2>>}
DragPressPoints == {<<2, 2>>, <<22, 2>>}
\* The edit modes in which notes are drawn and dragged.
DragModes == {"draw", "select"}
\* A collection handed over in the notes prop: two notes of a quarter of a
\* beat that lie on one another at start 0 in row 1.
PresetNotes ==
  << [id |-> 1, start |-> 0, duration |-> 20, pitch |-> 126,
      velocity |-> 100, lyric |-> "la"],
     [id |-> 2, start |-> 0, duration |-> 20, pitch |-> 126,
      velocity |-> 90, lyric |-> "la"] >>
\* SelectPressPoints: on the notes of PresetNotes, 10px and 9px before their
\* end.  SelectMovePoints: the second of them and a point 20px to the right
\* and one row up.
SelectPressPoints == {<<10, 22>>, <<11, 22>>}
SelectMovePoints == {<<11, 22>>, <<31, 2>>}
\* The collection of the two runs that are compared: the first of PresetNotes.
RunNotes == SubSeq(PresetNotes, 1, 1)
\* Pointer positions of the compared runs: 10px and 9px before the end of the
\* note of RunNotes, and a point of the empty top row.
RunPressPoints == {<<10, 22>>, <<11, 22>>, <<31, 2>>}
RunMovePoints == {<<11, 22>>, <<31, 2>>}
\* Settings of the second run: the defaults and one other value of each.
RunSnapSettings == {"1/4", "none"}
RunTimeSignatures == {<<4, 4>>, <<3, 8>>}
\* Pointer positions of the gestures that are followed move by move: a press
\* on the body of the note of RunNotes; moves to points 9, 10 and 18px to its
\* right, the last of them one row down.
GesturePressPoints == {<<2, 22>>}
GestureMovePoints == {<<2, 22>>, <<11, 22>>, <<12, 22>>, <<20, 42>>}
\* event.detail.action of the zoomChange events.
ZoomActions == {"zoom-in", "zoom-out"}
LyricTexts == {"mi"}
\* Two of the numeratorOptions of the toolbar.
Numerators == {2, 4}
\* event.deltaX / event.deltaY of the wheel events.
WheelDeltas == {-2000, 0, 1500}
\* Values of the width and height props: the defaults, and a viewport larger
\* than the content.
Widths == {880, 6000}
Heights == {520, 2600}
\* The values snapToGrid is applied to.
SnapInputs == -MaxSnapInput..MaxSnapInput
\* numeratorOptions, denominatorOptions and snapOptions of the toolbar.
numeratorOptions == {2, 3, 4, 5, 6, 7, 9, 12}
denominatorOptions == {2, 4, 8, 16}
snapOptions == {"1/1", "1/2", "1/4", "1/8", "1/16", "1/32", "none"}
\* event.deltaX of the wheel events that scroll the timeline: to the right
\* end of the content and back to its left end.
RenderWheelDeltas == {-31000, 31000}

VARIABLES
  notes,            \* the note collection, in array order
  selectedNotes,    \* Set<string> of note ids
  isDragging, isResizing, isCreatingNote,
  draggedNoteId, resizedNoteId,
  creationStartTime,
  dragStartX, dragStartY, lastMouseX, lastMouseY,
  isEditingLyric, editedNoteId, lyricInputValue,
  editMode,
  horizontalScroll, verticalScroll, width, height, numerator,
  parentHorizontalScroll, parentVerticalScroll,
  nextId,           \* next note id to hand out
  lastEvent,        \* kind of the latest event handled
  emitted,          \* noteChange notifications dispatched by the latest handler
  notified,         \* a noteChange has been dispatched at least once
  lastPayload,      \* payload of the latest noteChange
  scrollEmitted,    \* scroll notifications dispatched by the latest handler
  clickPhase,       \* the browser's click counter, which decides on dblclick
  clickTarget,      \* id of the note under the pointer when the counted
                    \* clicks began (none when a button was already held
                    \* or a session was under way)
  denominator,      \* timeSignature.denominator
  snapSetting,      \* the container's snapSetting, a prop of the timeline
  gridTicks,        \* subdivision lines on the grid canvas
  timelineTicks,    \* subdivision lines on the timeline canvas
  snapIn, snapOut,  \* argument and result of the latest snapToGrid call
  snapAgain,        \* result of snapToGrid applied to that result
  events,           \* the pointer events received by the first of two runs
  replayPos,        \* 0 in the first run; in the second run, the index of
                    \* the next of these events to be received
  firstNotes,       \* notes at the end of the first run
  firstSelection,   \* selectedNotes at the end of the first run
  gestureMoves,     \* the pointer moves of the drag under way: deltaX,
                    \* deltaY and the notes before the move
  pixelsPerBeat,    \* the container's zoom level
  zoomBefore,       \* pixelsPerBeat before the latest zoom request
  lastZoom          \* action of the latest zoom request

vars == <<notes, selectedNotes, isDragging, isResizing, isCreatingNote,
          draggedNoteId, resizedNoteId, creationStartTime, dragStartX,
          dragStartY, lastMouseX, lastMouseY, isEditingLyric, editedNoteId,
          lyricInputValue, editMode,
          horizontalScroll, verticalScroll, width, height, numerator,
          parentHorizontalScroll, parentVerticalScroll, nextId, lastEvent,
          emitted, notified, lastPayload, scrollEmitted, clickPhase,
          clickTarget, denominator, snapSetting, gridTicks, timelineTicks,
          snapIn, snapOut, snapAgain, events, replayPos, firstNotes,
          firstSelection, gestureMoves, pixelsPerBeat, zoomBefore, lastZoom>>

sessionVars == <<isDragging, isResizing, isCreatingNote, draggedNoteId,
                 resizedNoteId, creationStartTime>>
lyricVars == <<isEditingLyric, editedNoteId, lyricInputValue>>
mouseVars == <<dragStartX, dragStartY, lastMouseX, lastMouseY>>
clickVars == <<clickPhase, clickTarget>>
renderVars == <<denominator, snapSetting, gridTicks, timelineTicks>>
snapVars == <<snapIn, snapOut, snapAgain>>
runVars == <<events, replayPos, firstNotes, firstSelection>>
zoomVars == <<pixelsPerBeat, zoomBefore, lastZoom>>
auxVars == <<renderVars, snapVars, runVars, gestureMoves, zoomVars>>
viewVars == <<horizontalScroll, verticalScroll, width, height, numerator,
              parentHorizontalScroll, parentVerticalScroll, scrollEmitted>>

\* ------------------------------------------------------------ pure helpers
Max(a, b) == IF a >= b THEN a ELSE b
Min(a, b) == IF a <= b THEN a ELSE b

\* Math.round(a / b) for integers a and b > 0: halves round toward +infinity.
Round(a, b) == (2 * a + b) \div (2 * b)

\* Math.floor(a / b) for integers a and b > 0.
Floor(a, b) == a \div b

QuarterGrid == PIXELS_PER_BEAT \div 4
SeedDuration == PIXELS_PER_BEAT \div 8

\* snapToGrid with Math.floor in the place of Math.round.
snapToGrid_Floor(value) == Floor(value, QuarterGrid) * QuarterGrid

\* snapToGrid with the grain taken from the snap setting: no quantization
\* when it is 'none'.
snapToGrid_SnapAware(value) ==
  IF snapSetting = "none" THEN value
  ELSE Round(value, QuarterGrid) * QuarterGrid

snapToGrid(value) == Round(value, QuarterGrid) * QuarterGrid

NoNote == [id |-> NoId, start |-> 0, duration |-> 0, pitch |-> 0,
           velocity |-> 0, lyric |-> ""]

NoteIds(ns) == {ns[i].id : i \in 1..Len(ns)}

\* The predicate of notes.find(...) in findNoteAtPosition.
Hit(note, x, y) ==
  LET noteY == (TOTAL_NOTES - 1 - note.pitch) * NOTE_HEIGHT
  IN  /\ x >= note.start
      /\ x <= note.start + note.duration
      /\ y >= noteY
      /\ y <= noteY + NOTE_HEIGHT

\* Array.prototype.find: the first element, in array order, that matches;
\* NoNote stands for undefined.
findNoteAtPosition(x, y) ==
  LET hits == {i \in 1..Len(notes) : Hit(notes[i], x, y)}
  IN  IF hits = {} THEN NoNote
      ELSE notes[CHOOSE i \in hits : \A j \in hits : i <= j]

\* notes.filter(note => note.id !== id)
RemoveNote(ns, id) == SelectSeq(ns, LAMBDA n : n.id # id)

\* notes.find(note => note.id === id)
NoteById(ns, id) ==
  LET idx == {i \in 1..Len(ns) : ns[i].id = id}
  IN  IF idx = {} THEN NoNote
      ELSE ns[CHOOSE i \in idx : \A j \in idx : i <= j]


\* width/height of the scrollable content (reactive declarations).
totalGridHeight == TOTAL_NOTES * NOTE_HEIGHT
pixelsPerMeasure == numerator * PIXELS_PER_BEAT
totalGridWidth == totalMeasures * pixelsPerMeasure

\* Positions on the canvases are kept in sixths of a pixel, the unit in which
\* PIXELS_PER_BEAT / 3 and PIXELS_PER_BEAT / 32 are whole numbers.
SubPixel == 6

\* getSubdivisionsFromTimeSignature of the grid.
getSubdivisionsFromTimeSignature(denom) ==
  LET count == CASE denom = 2 -> 2
                 [] denom = 4 -> 4
                 [] denom = 8 -> 3
                 [] denom = 16 -> 4
                 [] OTHER -> 4
  IN  [count |-> count,
       pixelsPerSubdivision |-> (PIXELS_PER_BEAT * SubPixel) \div count]

\* The subdivision lines drawGrid draws in a measure: their distances tickX -
\* measureX from the measure line.
GridSubdivisionXs(beatsPerMeasure, denom) ==
  LET subdivisions == getSubdivisionsFromTimeSignature(denom)
  IN  {beat * PIXELS_PER_BEAT * SubPixel + tick * subdivisions.pixelsPerSubdivision :
         beat \in 0..(beatsPerMeasure - 1), tick \in 1..(subdivisions.count - 1)}

\* The switch on snapSetting in drawTimeline: divisionsPerMeasure /
\* beatsPerMeasure.
DivisionsPerBeat(snap) ==
  CASE snap = "1/2" -> 2
    [] snap = "1/4" -> 4
    [] snap = "1/8" -> 8
    [] snap = "1/16" -> 16
    [] snap = "1/32" -> 32
    [] OTHER -> 4

\* The subdivision lines drawTimeline draws in a measure: their distances
\* divisionX - measureX from the measure line.
TimelineSubdivisionXs(beatsPerMeasure, snap) ==
  IF snap = "1/1" THEN {}
  ELSE LET divisionsPerMeasure == beatsPerMeasure * DivisionsPerBeat(snap)
           pixelsPerDivision ==
             (beatsPerMeasure * PIXELS_PER_BEAT * SubPixel) \div divisionsPerMeasure
       IN  {division * pixelsPerDivision :
              division \in {d \in 1..(divisionsPerMeasure - 1) :
                              d % (divisionsPerMeasure \div beatsPerMeasure) # 0}}

\* ClampScroll without the upper bound.
ClampScroll_NoUpperBound(total, visible, current, delta) ==
  Max(0, current + delta)

\* Math.max(0, Math.min(total - visible, current + delta)) of handleScroll.
ClampScroll(total, visible, current, delta) ==
  Max(0, Min(total - visible, current + delta))

\* NewNote with the start taken from the pointer as it is, not snapped.
NewNote_Unsnapped(id, x, y) ==
  [id |-> id, start |-> x, duration |-> SeedDuration,
   pitch |-> TOTAL_NOTES - 1 - (y \div NOTE_HEIGHT),
   velocity |-> DefaultVelocity, lyric |-> DefaultLyric]

\* The note object literal built by the draw branch of handleMouseDown.
NewNote(id, x, y) ==
  LET pitch == Floor(y, NOTE_HEIGHT)
      time == snapToGrid(x)
  IN  [id |-> id, start |-> time, duration |-> SeedDuration,
       pitch |-> TOTAL_NOTES - 1 - pitch, velocity |-> DefaultVelocity,
       lyric |-> DefaultLyric]

\* DragNote without Math.max(0, ...) on the start.
DragNote_NoStartClamp(note, deltaX, deltaY) ==
  [note EXCEPT
     !.start = note.start + Round(deltaX, QuarterGrid) * QuarterGrid,
     !.pitch = Max(0, Min(MaxPitch, note.pitch - Round(deltaY, NOTE_HEIGHT)))]

\* DragNote with the horizontal delta applied as it is, not snapped.
DragNote_Unsnapped(note, deltaX, deltaY) ==
  [note EXCEPT
     !.start = Max(0, note.start + deltaX),
     !.pitch = Max(0, Min(MaxPitch, note.pitch - Round(deltaY, NOTE_HEIGHT)))]

\* DragNote with the object built without the spread of the note: start and
\* pitch only, the other fields and the id lost.
DragNote_WithoutSpread(note, deltaX, deltaY) ==
  [NoNote EXCEPT
     !.start = Max(0, note.start + Round(deltaX, QuarterGrid) * QuarterGrid),
     !.pitch = Max(0, Min(MaxPitch, note.pitch - Round(deltaY, NOTE_HEIGHT)))]

\* DragNote with Math.ceil in the place of Math.round on the horizontal delta.
DragNote_CeiledDelta(note, deltaX, deltaY) ==
  [note EXCEPT
     !.start = Max(0, note.start - Floor(-deltaX, QuarterGrid) * QuarterGrid),
     !.pitch = Max(0, Min(MaxPitch, note.pitch - Round(deltaY, NOTE_HEIGHT)))]

\* DragNote with Math.floor in the place of Math.round on the horizontal delta.
DragNote_FlooredDelta(note, deltaX, deltaY) ==
  [note EXCEPT
     !.start = Max(0, note.start + Floor(deltaX, QuarterGrid) * QuarterGrid),
     !.pitch = Max(0, Min(MaxPitch, note.pitch - Round(deltaY, NOTE_HEIGHT)))]

\* DragNote without the clamp of the pitch to 0..127.
DragNote_PitchUnclamped(note, deltaX, deltaY) ==
  [note EXCEPT
     !.start = Max(0, note.start + Round(deltaX, QuarterGrid) * QuarterGrid),
     !.pitch = note.pitch - Round(deltaY, NOTE_HEIGHT)]

\* The object returned for a selected note by the drag branch of
\* handleMouseMove.
DragNote(note, deltaX, deltaY) ==
  LET snappedDeltaX == Round(deltaX, QuarterGrid) * QuarterGrid
  IN  [note EXCEPT
         !.start = Max(0, note.start + snappedDeltaX),
         !.pitch = Max(0, Min(MaxPitch, note.pitch - Round(deltaY, NOTE_HEIGHT)))]

\* NewDuration without the Math.max(PIXELS_PER_BEAT / 8, ...) clamps.
NewDuration_Unclamped(note, creating, x, deltaX) ==
  IF creating
  THEN Round(x - creationStartTime, QuarterGrid) * QuarterGrid
  ELSE note.duration + Round(deltaX, QuarterGrid) * QuarterGrid

\* newDuration of the resize branch of handleMouseMove.
NewDuration(note, creating, x, deltaX) ==
  IF creating
  THEN LET w == Max(SeedDuration, x - creationStartTime)
           snapped == Round(w, QuarterGrid) * QuarterGrid
       IN  Max(SeedDuration, snapped)
  ELSE LET snappedDeltaX == Round(deltaX, QuarterGrid) * QuarterGrid
       IN  Max(SeedDuration, note.duration + snappedDeltaX)

\* DiscardsCreatedNote with a note of exactly a quarter of a beat discarded too.
DiscardsCreatedNote_AtMostQuarter ==
  /\ isCreatingNote
  /\ resizedNoteId # NoId
  /\ LET createdNote == NoteById(notes, resizedNoteId)
     IN  createdNote.id # NoId /\ createdNote.duration <= QuarterGrid

\* The condition under which handleMouseUp removes the note being created:
\* it is shorter than a quarter of a beat.
DiscardsCreatedNote ==
  /\ isCreatingNote
  /\ resizedNoteId # NoId
  /\ LET createdNote == NoteById(notes, resizedNoteId)
     IN  createdNote.id # NoId /\ createdNote.duration < QuarterGrid

\* The collection handleMouseUp leaves.
NotesAfterMouseUp ==
  IF DiscardsCreatedNote THEN RemoveNote(notes, resizedNoteId) ELSE notes

\* The selection handleMouseUp leaves (it does not touch selectedNotes).
SelectionAfterMouseUp == selectedNotes

\* The erase branch without selectedNotes.delete.
SelectionAfterErase_KeepsId(id) == selectedNotes

\* The selection the erase branch of handleMouseDown leaves.
SelectionAfterErase(id) == selectedNotes \ {id}

\* Dispatch with the collection as it was before the handler assigned it.
Dispatch_Stale(ns) ==
  /\ emitted' = 1
  /\ notified' = TRUE
  /\ lastPayload' = notes

\* dispatch('noteChange', { notes }) with the collection just assigned.
Dispatch(ns) ==
  /\ emitted' = 1
  /\ notified' = TRUE
  /\ lastPayload' = ns

NoDispatch ==
  /\ emitted' = 0
  /\ UNCHANGED <<notified, lastPayload>>

\* ------------------------------------------------------------------- Init
\* The state after mount, for the collection and the edit mode the host
\* hands over in the notes and editMode props.
\* The component as it is mounted with the notes and editMode props given.
Mount(ns, mode) ==
  /\ notes = ns
  /\ selectedNotes = {}
  /\ isDragging = FALSE /\ isResizing = FALSE /\ isCreatingNote = FALSE
  /\ draggedNoteId = NoId /\ resizedNoteId = NoId
  /\ creationStartTime = 0
  /\ dragStartX = 0 /\ dragStartY = 0
  /\ lastMouseX = 0 /\ lastMouseY = 0
  /\ isEditingLyric = FALSE /\ editedNoteId = NoId /\ lyricInputValue = ""
  /\ editMode = mode
  /\ horizontalScroll = 0 /\ verticalScroll = 0
  /\ width = 880 /\ height = 520 /\ numerator = 4
  /\ parentHorizontalScroll = 0 /\ parentVerticalScroll = 0
  /\ nextId = Len(ns) + 1
  /\ lastEvent = "mount"
  /\ emitted = 0 /\ notified = FALSE /\ lastPayload = <<>>
  /\ scrollEmitted = 0
  /\ clickPhase = "none" /\ clickTarget = NoId
  /\ denominator = 4 /\ snapSetting = "1/4"
  /\ gridTicks = GridSubdivisionXs(4, 4)
  /\ timelineTicks = TimelineSubdivisionXs(4, "1/4")
  /\ snapIn = 0 /\ snapOut = 0 /\ snapAgain = 0
  /\ gestureMoves = <<>>
  /\ pixelsPerBeat = 80 /\ zoomBefore = 80 /\ lastZoom = "none"

InitWith(ns, mode) ==
  /\ Mount(ns, mode)
  /\ events = <<>> /\ replayPos = 0
  /\ firstNotes = <<>> /\ firstSelection = {}

\* The props' defaults: no notes, draw mode.
Init == InitWith(<<>>, "draw")

\* The draw branch entered whatever is under the pointer.
DrawsNewNote_OnNotesToo(clickedNote) == editMode = "draw"

\* The condition of the draw branch of handleMouseDown: draw mode and no note
\* under the pointer.
DrawsNewNote(clickedNote) == editMode = "draw" /\ clickedNote.id = NoId

\* ---------------------------------------------------------------- actions
\* on:mousedown
handleMouseDown(ox, oy, shiftKey) ==
  LET x == ox + horizontalScroll
      y == oy + verticalScroll
      clickedNote == findNoteAtPosition(x, y)
  IN
  /\ dragStartX' = x
  /\ dragStartY' = y
  /\ lastMouseX' = x
  /\ lastMouseY' = y
  /\ lastEvent' = "mousedown"
  /\ UNCHANGED <<lyricVars, editMode, viewVars>>
  /\ IF DrawsNewNote(clickedNote)
     THEN LET newNote == NewNote(nextId, x, y)
          IN  /\ nextId <= MaxId
              /\ creationStartTime' = newNote.start
              /\ notes' = Append(notes, newNote)
              /\ selectedNotes' = {newNote.id}
              /\ resizedNoteId' = newNote.id
              /\ isCreatingNote' = TRUE
              /\ isResizing' = TRUE
              /\ nextId' = nextId + 1
              /\ Dispatch(notes')
              /\ UNCHANGED <<isDragging, draggedNoteId>>
     ELSE IF editMode = "erase" /\ clickedNote.id # NoId
     THEN /\ notes' = RemoveNote(notes, clickedNote.id)
          /\ selectedNotes' = SelectionAfterErase(clickedNote.id)
          /\ Dispatch(notes')
          /\ UNCHANGED <<sessionVars, nextId>>
     ELSE IF editMode = "select"
     THEN /\ NoDispatch
          /\ UNCHANGED <<notes, nextId, isCreatingNote, creationStartTime>>
          /\ IF clickedNote.id # NoId
             THEN LET noteEndX == clickedNote.start + clickedNote.duration
                      dist == IF x >= noteEndX THEN x - noteEndX ELSE noteEndX - x
                  IN  IF dist < ResizeHotZone
                      THEN /\ isResizing' = TRUE
                           /\ resizedNoteId' = clickedNote.id
                           /\ UNCHANGED <<selectedNotes, isDragging, draggedNoteId>>
                      ELSE /\ selectedNotes' =
                                IF ~shiftKey
                                THEN IF clickedNote.id \notin selectedNotes
                                     THEN {clickedNote.id} ELSE selectedNotes
                                ELSE selectedNotes \cup {clickedNote.id}
                           /\ isDragging' = TRUE
                           /\ draggedNoteId' = clickedNote.id
                           /\ UNCHANGED <<isResizing, resizedNoteId>>
             ELSE /\ selectedNotes' = IF ~shiftKey THEN {} ELSE selectedNotes
                  /\ UNCHANGED <<isDragging, draggedNoteId, isResizing, resizedNoteId>>
     ELSE /\ NoDispatch
          /\ UNCHANGED <<notes, selectedNotes, sessionVars, nextId>>

MouseDownAt(P) == \E p \in P, shiftKey \in BOOLEAN :
                     handleMouseDown(p[1], p[2], shiftKey)
MouseDown == MouseDownAt(Points) /\ UNCHANGED <<clickVars, auxVars>>

\* on:mousemove
handleMouseMove(ox, oy) ==
  LET x == ox + horizontalScroll
      y == oy + verticalScroll
      deltaX == x - lastMouseX
      deltaY == y - lastMouseY
  IN
  /\ lastMouseX' = x
  /\ lastMouseY' = y
  /\ lastEvent' = "mousemove"
  /\ UNCHANGED <<selectedNotes, sessionVars, lyricVars, editMode, viewVars,
                 nextId, dragStartX, dragStartY>>
  /\ IF isDragging /\ draggedNoteId # NoId /\ editMode = "select"
     THEN /\ notes' = [i \in 1..Len(notes) |->
                         IF notes[i].id \in selectedNotes
                         THEN DragNote(notes[i], deltaX, deltaY)
                         ELSE notes[i]]
          /\ \A i \in 1..Len(notes) : notes'[i].start <= MaxStart
          /\ Dispatch(notes')
     ELSE IF isResizing /\ resizedNoteId # NoId
     THEN /\ notes' = [i \in 1..Len(notes) |->
                         IF notes[i].id = resizedNoteId
                         THEN [notes[i] EXCEPT !.duration =
                                 NewDuration(notes[i], isCreatingNote, x, deltaX)]
                         ELSE notes[i]]
          /\ \A i \in 1..Len(notes) : notes'[i].duration <= MaxDuration
          /\ Dispatch(notes')
     ELSE /\ NoDispatch
          /\ UNCHANGED notes

MouseMoveAt(P) == \E p \in P : handleMouseMove(p[1], p[2])
MouseMove == MouseMoveAt(Points) /\ UNCHANGED <<clickVars, auxVars>>

\* handleMouseUp without the reset of the resize fields.
handleMouseUp_KeepsResize ==
  /\ notes' = NotesAfterMouseUp
  /\ selectedNotes' = SelectionAfterMouseUp
  /\ IF DiscardsCreatedNote THEN Dispatch(notes') ELSE NoDispatch
  /\ isCreatingNote' = FALSE
  /\ isDragging' = FALSE
  /\ draggedNoteId' = NoId
  /\ lastEvent' = "mouseup"
  /\ UNCHANGED <<isResizing, resizedNoteId, creationStartTime, mouseVars,
                 lyricVars, editMode, viewVars, nextId>>

\* on:mouseup and on:mouseleave both run handleMouseUp, which reads no event:
\* one action stands for either.
handleMouseUp ==
  /\ notes' = NotesAfterMouseUp
  /\ selectedNotes' = SelectionAfterMouseUp
  /\ IF DiscardsCreatedNote THEN Dispatch(notes') ELSE NoDispatch
  /\ isCreatingNote' = FALSE
  /\ isDragging' = FALSE
  /\ isResizing' = FALSE
  /\ draggedNoteId' = NoId
  /\ resizedNoteId' = NoId
  /\ lastEvent' = "mouseup"
  /\ UNCHANGED <<creationStartTime, mouseVars, lyricVars,
                 editMode, viewVars, nextId>>

MouseUp == handleMouseUp /\ UNCHANGED <<clickVars, auxVars>>

\* on:dblclick.  The browser delivers it after the second mouseup of two
\* clicks at one position (clickPhase = "up2").
handleDoubleClick(ox, oy) ==
  LET x == ox + horizontalScroll
      y == oy + verticalScroll
      clickedNote == findNoteAtPosition(x, y)
  IN
  /\ clickPhase = "up2"
  /\ x = lastMouseX /\ y = lastMouseY
  /\ clickPhase' = "none" /\ clickTarget' = NoId
  /\ UNCHANGED auxVars
  /\ lastEvent' = "dblclick"
  /\ NoDispatch
  /\ IF clickedNote.id # NoId
     THEN /\ editedNoteId' = clickedNote.id
          /\ lyricInputValue' = clickedNote.lyric
          /\ isEditingLyric' = TRUE
     ELSE UNCHANGED lyricVars
  /\ UNCHANGED <<notes, selectedNotes, sessionVars, mouseVars,
                 editMode, viewVars, nextId>>

DoubleClick == \E p \in LyricPoints : handleDoubleClick(p[1], p[2])

\* bind:value of the lyric input: typing replaces the buffer.
LyricInput ==
  /\ isEditingLyric
  /\ \E v \in LyricTexts : lyricInputValue' = v
  /\ lastEvent' = "input"
  /\ UNCHANGED <<clickVars, auxVars>>
  /\ NoDispatch
  /\ UNCHANGED <<notes, selectedNotes, sessionVars, mouseVars,
                 isEditingLyric, editedNoteId, editMode, viewVars, nextId>>

\* saveLyric without the reset of editedNoteId.
saveLyric_KeepsEditedNote ==
  IF editedNoteId = NoId
  THEN /\ NoDispatch
       /\ UNCHANGED <<notes, isEditingLyric, editedNoteId>>
  ELSE /\ notes' = [i \in 1..Len(notes) |->
                      IF notes[i].id = editedNoteId
                      THEN [notes[i] EXCEPT !.lyric = lyricInputValue]
                      ELSE notes[i]]
       /\ isEditingLyric' = FALSE
       /\ UNCHANGED editedNoteId
       /\ Dispatch(notes')

\* saveLyric(): the state it leaves, as a conjunction over the primed
\* variables it assigns.
saveLyric ==
  IF editedNoteId = NoId
  THEN /\ NoDispatch
       /\ UNCHANGED <<notes, isEditingLyric, editedNoteId>>
  ELSE /\ notes' = [i \in 1..Len(notes) |->
                      IF notes[i].id = editedNoteId
                      THEN [notes[i] EXCEPT !.lyric = lyricInputValue]
                      ELSE notes[i]]
       /\ isEditingLyric' = FALSE
       /\ editedNoteId' = NoId
       /\ Dispatch(notes')

\* handleLyricInputKeydown with an Escape that keeps editedNoteId.
handleLyricInputKeydown_EscapeKeepsNote(key) ==
  /\ isEditingLyric
  /\ lastEvent' = "key" \o key
  /\ UNCHANGED <<clickVars, auxVars>>
  /\ IF key = "Enter"
     THEN saveLyric
     ELSE /\ key = "Escape"
          /\ isEditingLyric' = FALSE
          /\ NoDispatch
          /\ UNCHANGED <<notes, editedNoteId>>
  /\ UNCHANGED <<selectedNotes, sessionVars, mouseVars,
                 lyricInputValue, editMode, viewVars, nextId>>

\* on:keydown of the lyric input (any other key leaves the state alone).
handleLyricInputKeydown(key) ==
  /\ isEditingLyric
  /\ lastEvent' = "key" \o key
  /\ UNCHANGED <<clickVars, auxVars>>
  /\ IF key = "Enter"
     THEN saveLyric
     ELSE /\ key = "Escape"
          /\ isEditingLyric' = FALSE
          /\ editedNoteId' = NoId
          /\ NoDispatch
          /\ UNCHANGED notes
  /\ UNCHANGED <<selectedNotes, sessionVars, mouseVars,
                 lyricInputValue, editMode, viewVars, nextId>>

LyricKeydown == \E key \in {"Enter", "Escape"} : handleLyricInputKeydown(key)

\* on:blur of the lyric input: the input loses focus while it is shown, or
\* is removed from the document by the key that ended the edit.
LyricBlur ==
  /\ isEditingLyric \/ lastEvent \in {"keyEnter", "keyEscape"}
  /\ lastEvent' = "blur"
  /\ UNCHANGED <<clickVars, auxVars>>
  /\ saveLyric
  /\ UNCHANGED <<selectedNotes, sessionVars, mouseVars,
                 lyricInputValue, editMode, viewVars, nextId>>

\* The editMode prop is set by the container (toolbar).
SetEditModeTo(modes) ==
  /\ \E m \in modes : m # editMode /\ editMode' = m
  /\ UNCHANGED <<notes, selectedNotes, sessionVars, mouseVars,
                 lyricVars, viewVars, nextId, lastEvent, emitted, notified,
                 lastPayload>>

SetEditMode == SetEditModeTo(EditModes) /\ UNCHANGED <<clickVars, auxVars>>

\* handleScroll without the dispatch that follows a vertical change.
handleScroll_VerticalNotSent(deltaX, deltaY, shiftKey) ==
  LET newVerticalScroll ==
        IF deltaY # 0
        THEN ClampScroll(totalGridHeight, height, verticalScroll, deltaY)
        ELSE verticalScroll
      horizontal == deltaX # 0 \/ shiftKey
      dX == IF deltaX # 0 THEN deltaX ELSE deltaY
      newHorizontalScroll ==
        IF horizontal
        THEN ClampScroll(totalGridWidth, width, horizontalScroll, dX)
        ELSE horizontalScroll
      hChanged == newHorizontalScroll # horizontalScroll
  IN
  /\ verticalScroll' = newVerticalScroll
  /\ horizontalScroll' = newHorizontalScroll
  /\ scrollEmitted' = (IF hChanged THEN 1 ELSE 0)
  /\ parentVerticalScroll' =
       IF hChanged THEN newVerticalScroll ELSE parentVerticalScroll
  /\ parentHorizontalScroll' =
       IF hChanged THEN newHorizontalScroll ELSE parentHorizontalScroll
  /\ lastEvent' = "wheel"
  /\ timelineTicks' = IF parentHorizontalScroll' # parentHorizontalScroll
                     THEN TimelineSubdivisionXs(numerator, snapSetting)
                     ELSE timelineTicks
  /\ UNCHANGED <<clickVars, snapVars, runVars, gestureMoves, zoomVars,
                 denominator, snapSetting, gridTicks>>
  /\ NoDispatch
  /\ UNCHANGED <<notes, selectedNotes, sessionVars, mouseVars,
                 lyricVars, editMode, width, height, numerator, nextId>>

\* handleScroll with the horizontal branch entered for deltaX # 0 only.
handleScroll_ShiftIgnored(deltaX, deltaY, shiftKey) ==
  LET newVerticalScroll ==
        IF deltaY # 0
        THEN ClampScroll(totalGridHeight, height, verticalScroll, deltaY)
        ELSE verticalScroll
      horizontal == deltaX # 0
      dX == IF deltaX # 0 THEN deltaX ELSE deltaY
      newHorizontalScroll ==
        IF horizontal
        THEN ClampScroll(totalGridWidth, width, horizontalScroll, dX)
        ELSE horizontalScroll
      vChanged == newVerticalScroll # verticalScroll
      hChanged == newHorizontalScroll # horizontalScroll
  IN
  /\ verticalScroll' = newVerticalScroll
  /\ horizontalScroll' = newHorizontalScroll
  /\ scrollEmitted' = (IF vChanged THEN 1 ELSE 0) + (IF hChanged THEN 1 ELSE 0)
  /\ parentVerticalScroll' =
       IF vChanged \/ hChanged THEN newVerticalScroll ELSE parentVerticalScroll
  /\ parentHorizontalScroll' =
       IF hChanged THEN newHorizontalScroll
       ELSE IF vChanged THEN horizontalScroll
       ELSE parentHorizontalScroll
  /\ lastEvent' = "wheel"
  /\ timelineTicks' = IF parentHorizontalScroll' # parentHorizontalScroll
                     THEN TimelineSubdivisionXs(numerator, snapSetting)
                     ELSE timelineTicks
  /\ UNCHANGED <<clickVars, snapVars, runVars, gestureMoves, zoomVars,
                 denominator, snapSetting, gridTicks>>
  /\ NoDispatch
  /\ UNCHANGED <<notes, selectedNotes, sessionVars, mouseVars,
                 lyricVars, editMode, width, height, numerator, nextId>>

\* The grid's wheel handler; dispatch('scroll', ...) runs the container's
\* handleGridScroll, which copies both offsets of the payload.
handleScroll(deltaX, deltaY, shiftKey) ==
  LET newVerticalScroll ==
        IF deltaY # 0
        THEN ClampScroll(totalGridHeight, height, verticalScroll, deltaY)
        ELSE verticalScroll
      horizontal == deltaX # 0 \/ shiftKey
      dX == IF deltaX # 0 THEN deltaX ELSE deltaY
      newHorizontalScroll ==
        IF horizontal
        THEN ClampScroll(totalGridWidth, width, horizontalScroll, dX)
        ELSE horizontalScroll
      vChanged == newVerticalScroll # verticalScroll
      hChanged == newHorizontalScroll # horizontalScroll
  IN
  /\ verticalScroll' = newVerticalScroll
  /\ horizontalScroll' = newHorizontalScroll
  /\ scrollEmitted' = (IF vChanged THEN 1 ELSE 0) + (IF hChanged THEN 1 ELSE 0)
  /\ parentVerticalScroll' =
       IF vChanged \/ hChanged THEN newVerticalScroll ELSE parentVerticalScroll
  /\ parentHorizontalScroll' =
       IF hChanged THEN newHorizontalScroll
       ELSE IF vChanged THEN horizontalScroll
       ELSE parentHorizontalScroll
  /\ lastEvent' = "wheel"
  /\ timelineTicks' = IF parentHorizontalScroll' # parentHorizontalScroll
                     THEN TimelineSubdivisionXs(numerator, snapSetting)
                     ELSE timelineTicks
  /\ UNCHANGED <<clickVars, snapVars, runVars, gestureMoves, zoomVars,
                 denominator, snapSetting, gridTicks>>
  /\ NoDispatch
  /\ UNCHANGED <<notes, selectedNotes, sessionVars, mouseVars,
                 lyricVars, editMode, width, height, numerator, nextId>>

Wheel == \E deltaX \in WheelDeltas, deltaY \in WheelDeltas, shiftKey \in BOOLEAN :
           handleScroll(deltaX, deltaY, shiftKey)

\* handleTimeSignatureChange of the container: the timeSignature prop of the
\* grid and of the timeline changes and both canvases are drawn again.
handleTimeSignatureChange(n, d) ==
  /\ numerator' = n
  /\ denominator' = d
  /\ gridTicks' = GridSubdivisionXs(n, d)
  /\ timelineTicks' = TimelineSubdivisionXs(n, snapSetting)
  /\ UNCHANGED <<notes, selectedNotes, sessionVars, mouseVars,
                 lyricVars, editMode, horizontalScroll, verticalScroll, width,
                 height, parentHorizontalScroll, parentVerticalScroll,
                 scrollEmitted, nextId, lastEvent, emitted, notified,
                 lastPayload, clickVars, snapSetting, snapVars, runVars,
                 gestureMoves, zoomVars>>

SetNumerator ==
  \E n \in Numerators : n # numerator /\ handleTimeSignatureChange(n, denominator)

\* The width and height props are set by the host; the canvases are resized
\* and drawn again.
SetSize ==
  /\ \E w \in Widths, h \in Heights :
       /\ <<w, h>> # <<width, height>>
       /\ width' = w
       /\ height' = h
  /\ timelineTicks' = TimelineSubdivisionXs(numerator, snapSetting)
  /\ UNCHANGED <<notes, selectedNotes, sessionVars, mouseVars,
                 lyricVars, editMode, horizontalScroll, verticalScroll,
                 numerator, parentHorizontalScroll, parentVerticalScroll,
                 scrollEmitted, nextId, lastEvent, emitted, notified,
                 lastPayload, clickVars, denominator, snapSetting, gridTicks,
                 snapVars, runVars, gestureMoves, zoomVars>>

\* handleSnapChange of the container: the snapSetting prop of the timeline
\* changes; no reactive statement of the timeline reads it, so the canvas is
\* not drawn again.
handleSnapChange(snap) ==
  /\ snapSetting' = snap
  /\ UNCHANGED <<notes, selectedNotes, sessionVars, mouseVars,
                 lyricVars, editMode, viewVars, nextId, lastEvent, emitted,
                 notified, lastPayload, clickVars, denominator, gridTicks,
                 timelineTicks, snapVars, runVars, gestureMoves, zoomVars>>

\* zoomIn without the test against MAX_PIXELS_PER_BEAT.
zoomIn_Unbounded(pixels) == pixels + ZOOM_STEP

\* zoomIn and zoomOut of the container: the zoom level they leave.
zoomIn(pixels) ==
  IF pixels < MAX_PIXELS_PER_BEAT THEN pixels + ZOOM_STEP ELSE pixels

zoomOut(pixels) ==
  IF pixels > MIN_PIXELS_PER_BEAT THEN pixels - ZOOM_STEP ELSE pixels

\* handleZoomChange of the container.  No component reads pixelsPerBeat: the
\* grid and the timeline draw with their own constant PIXELS_PER_BEAT.
handleZoomChange(action) ==
  /\ pixelsPerBeat' = IF action = "zoom-in" THEN zoomIn(pixelsPerBeat)
                      ELSE IF action = "zoom-out" THEN zoomOut(pixelsPerBeat)
                      ELSE pixelsPerBeat
  /\ zoomBefore' = pixelsPerBeat
  /\ lastZoom' = action
  /\ UNCHANGED <<notes, selectedNotes, sessionVars, mouseVars,
                 lyricVars, editMode, viewVars, nextId, lastEvent, emitted,
                 notified, lastPayload, clickVars, renderVars, snapVars,
                 runVars, gestureMoves>>

\* A call of snapToGrid, and a call of it on its own result.
ApplySnapToGrid(value) ==
  /\ snapIn' = value
  /\ snapOut' = snapToGrid(value)
  /\ snapAgain' = snapToGrid(snapToGrid(value))
  /\ UNCHANGED <<notes, selectedNotes, sessionVars, mouseVars,
                 lyricVars, editMode, viewVars, nextId, lastEvent, emitted,
                 notified, lastPayload, clickVars, renderVars, runVars,
                 gestureMoves, zoomVars>>

\* ---------------------------------------------------------- specifications
\* Pointer gestures on the canvas, in any edit mode.
Next ==
  \/ MouseDown
  \/ MouseMove
  \/ MouseUp
  \/ SetEditMode

Spec == Init /\ [][Next]_vars

\* Pointer gestures along one column, across the rows.
RowMouseDown == MouseDownAt(RowPoints) /\ UNCHANGED <<clickVars, auxVars>>
RowMouseMove == MouseMoveAt(RowPoints) /\ UNCHANGED <<clickVars, auxVars>>
RowMouseUp == handleMouseUp /\ UNCHANGED <<clickVars, auxVars>>
RowSetEditMode == SetEditMode

NextRows ==
  \/ RowMouseDown
  \/ RowMouseMove
  \/ RowMouseUp
  \/ RowSetEditMode

SpecRows == Init /\ [][NextRows]_vars

\* Lyric editing, with the pointer gestures that create and hit the notes.
\* A mousedown continues a double click when it follows a completed click at
\* the same position; a move ends the count.
LyricMouseDown ==
  \E p \in LyricPoints, shiftKey \in BOOLEAN :
    /\ handleMouseDown(p[1], p[2], shiftKey)
    /\ clickPhase' = IF /\ clickPhase = "up1"
                        /\ lastMouseX = p[1] + horizontalScroll
                        /\ lastMouseY = p[2] + verticalScroll
                     THEN "down2" ELSE "down1"
    /\ clickTarget' =
         IF clickPhase' = "down2" THEN clickTarget
         ELSE IF clickPhase \in {"down1", "down2"} \/ isResizing \/ isDragging
              THEN NoId
         ELSE findNoteAtPosition(p[1] + horizontalScroll,
                                 p[2] + verticalScroll).id
    /\ UNCHANGED auxVars
LyricMouseMove ==
  /\ MouseMoveAt(LyricMovePoints)
  /\ clickPhase' = "none" /\ clickTarget' = NoId
  /\ UNCHANGED auxVars
LyricMouseUp ==
  /\ handleMouseUp
  /\ clickPhase' = IF clickPhase = "down1" THEN "up1"
                   ELSE IF clickPhase = "down2" THEN "up2"
                   ELSE "none"
  /\ clickTarget' = IF clickPhase' = "none" THEN NoId ELSE clickTarget
  /\ UNCHANGED auxVars
\* Choosing a mode in the toolbar is a click outside the canvas: it ends
\* the count.
LyricSetEditMode ==
  /\ SetEditModeTo(EditModes)
  /\ clickPhase' = "none" /\ clickTarget' = NoId
  /\ UNCHANGED auxVars

NextLyric ==
  \/ LyricMouseDown
  \/ LyricMouseMove
  \/ LyricMouseUp
  \/ LyricSetEditMode
  \/ DoubleClick
  \/ LyricInput
  \/ LyricKeydown
  \/ LyricBlur

SpecLyric == Init /\ [][NextLyric]_vars

\* The viewport: wheel events and changes of the props the clamp reads.
NextScroll ==
  \/ Wheel
  \/ SetNumerator
  \/ SetSize

SpecScroll == Init /\ [][NextScroll]_vars

\* Drawing notes and dragging the selection along one row.
DragMouseDown == MouseDownAt(DragPressPoints) /\ UNCHANGED <<clickVars, auxVars>>
DragMouseMove == MouseMoveAt(DragPoints) /\ UNCHANGED <<clickVars, auxVars>>
DragMouseUp == handleMouseUp /\ UNCHANGED <<clickVars, auxVars>>
DragSetEditMode == SetEditModeTo(DragModes) /\ UNCHANGED <<clickVars, auxVars>>

NextDrag ==
  \/ DragMouseDown
  \/ DragMouseMove
  \/ DragMouseUp
  \/ DragSetEditMode

SpecDrag == Init /\ [][NextDrag]_vars

\* Selecting, dragging and resizing the notes of a collection handed over by
\* the host, in select mode.
InitSelect == InitWith(PresetNotes, "select")

SelectMouseDown ==
  MouseDownAt(SelectPressPoints) /\ UNCHANGED <<clickVars, auxVars>>
SelectMouseMove ==
  MouseMoveAt(SelectMovePoints) /\ UNCHANGED <<clickVars, auxVars>>
SelectMouseUp == handleMouseUp /\ UNCHANGED <<clickVars, auxVars>>

NextSelect ==
  \/ SelectMouseDown
  \/ SelectMouseMove
  \/ SelectMouseUp

SpecSelect == InitSelect /\ [][NextSelect]_vars

\* Two runs of the component that receive the same pointer events: the first
\* under the default settings, the second, on a component mounted anew with
\* the same props, while the snap setting and the time signature are changed
\* in the toolbar.
InitRuns == \E mode \in DragModes : InitWith(RunNotes, mode)

RunFrame == UNCHANGED <<clickVars, renderVars, snapVars, firstNotes,
                        firstSelection, gestureMoves, zoomVars>>

RunMouseDown ==
  /\ replayPos = 0 /\ Len(events) < MaxEvents
  /\ \E p \in RunPressPoints, shiftKey \in BOOLEAN :
       /\ handleMouseDown(p[1], p[2], shiftKey)
       /\ events' = Append(events, [type |-> "mousedown", x |-> p[1],
                                     y |-> p[2], shiftKey |-> shiftKey])
  /\ UNCHANGED replayPos /\ RunFrame

RunMouseMove ==
  /\ replayPos = 0 /\ Len(events) < MaxEvents
  /\ \E p \in RunMovePoints :
       /\ handleMouseMove(p[1], p[2])
       /\ events' = Append(events, [type |-> "mousemove", x |-> p[1],
                                     y |-> p[2], shiftKey |-> FALSE])
  /\ UNCHANGED replayPos /\ RunFrame

RunMouseUp ==
  /\ replayPos = 0 /\ Len(events) < MaxEvents
  /\ handleMouseUp
  /\ events' = Append(events, [type |-> "mouseup", x |-> 0, y |-> 0,
                                shiftKey |-> FALSE])
  /\ UNCHANGED replayPos /\ RunFrame

\* The component mounted anew with the notes and editMode props given: the
\* assignments of Mount, made to the state that follows.
Remount(ns, mode) ==
  /\ notes' = ns
  /\ selectedNotes' = {}
  /\ isDragging' = FALSE /\ isResizing' = FALSE /\ isCreatingNote' = FALSE
  /\ draggedNoteId' = NoId /\ resizedNoteId' = NoId
  /\ creationStartTime' = 0
  /\ dragStartX' = 0 /\ dragStartY' = 0
  /\ lastMouseX' = 0 /\ lastMouseY' = 0
  /\ isEditingLyric' = FALSE /\ editedNoteId' = NoId /\ lyricInputValue' = ""
  /\ editMode' = mode
  /\ horizontalScroll' = 0 /\ verticalScroll' = 0
  /\ width' = 880 /\ height' = 520 /\ numerator' = 4
  /\ parentHorizontalScroll' = 0 /\ parentVerticalScroll' = 0
  /\ nextId' = Len(ns) + 1
  /\ lastEvent' = "mount"
  /\ emitted' = 0 /\ notified' = FALSE /\ lastPayload' = <<>>
  /\ scrollEmitted' = 0
  /\ clickPhase' = "none" /\ clickTarget' = NoId
  /\ denominator' = 4 /\ snapSetting' = "1/4"
  /\ gridTicks' = GridSubdivisionXs(4, 4)
  /\ timelineTicks' = TimelineSubdivisionXs(4, "1/4")
  /\ snapIn' = 0 /\ snapOut' = 0 /\ snapAgain' = 0
  /\ gestureMoves' = <<>>
  /\ pixelsPerBeat' = 80 /\ zoomBefore' = 80 /\ lastZoom' = "none"

\* The first run ends; its notes and selection are kept, and the second run
\* begins on a component mounted anew.
RunAgain ==
  /\ replayPos = 0 /\ events # <<>>
  /\ Remount(RunNotes, editMode)
  /\ firstNotes' = notes
  /\ firstSelection' = selectedNotes
  /\ replayPos' = 1
  /\ UNCHANGED events

\* The second run receives the next event of the first.
RunReplay ==
  /\ replayPos \in 1..Len(events)
  /\ LET e == events[replayPos]
     IN  \/ e.type = "mousedown" /\ handleMouseDown(e.x, e.y, e.shiftKey)
         \/ e.type = "mousemove" /\ handleMouseMove(e.x, e.y)
         \/ e.type = "mouseup" /\ handleMouseUp
  /\ replayPos' = replayPos + 1
  /\ UNCHANGED events /\ RunFrame

RunSetSnap ==
  /\ replayPos >= 1
  /\ \E snap \in RunSnapSettings : snap # snapSetting /\ handleSnapChange(snap)

RunSetTimeSignature ==
  /\ replayPos >= 1
  /\ \E ts \in RunTimeSignatures :
       /\ ts # <<numerator, denominator>>
       /\ handleTimeSignatureChange(ts[1], ts[2])

NextRuns ==
  \/ RunMouseDown
  \/ RunMouseMove
  \/ RunMouseUp
  \/ RunAgain
  \/ RunReplay
  \/ RunSetSnap
  \/ RunSetTimeSignature

SpecRuns == InitRuns /\ [][NextRuns]_vars

\* Drags in select mode followed move by move: every press begins a new
\* record, every move made while a drag is under way is added to it with its
\* deltas and the notes it found, and the release ends it.
InitGesture == InitWith(RunNotes, "select")

GestureFrame == UNCHANGED <<clickVars, renderVars, snapVars, runVars, zoomVars>>

GestureMouseDown ==
  /\ MouseDownAt(GesturePressPoints)
  /\ gestureMoves' = <<>>
  /\ GestureFrame

GestureMouseMove ==
  /\ Len(gestureMoves) < MaxMoves
  /\ \E p \in GestureMovePoints :
       /\ handleMouseMove(p[1], p[2])
       /\ gestureMoves' =
            IF isDragging
            THEN Append(gestureMoves,
                        [deltaX |-> p[1] + horizontalScroll - lastMouseX,
                         deltaY |-> p[2] + verticalScroll - lastMouseY,
                         before |-> notes])
            ELSE gestureMoves
  /\ GestureFrame

GestureMouseUp == handleMouseUp /\ gestureMoves' = <<>> /\ GestureFrame

NextGesture ==
  \/ GestureMouseDown
  \/ GestureMouseMove
  \/ GestureMouseUp

SpecGesture == InitGesture /\ [][NextGesture]_vars

\* The toolbar of the container: zoom requests and snap settings.
ZoomChange == \E action \in ZoomActions : handleZoomChange(action)

ZoomSetSnap ==
  \E snap \in snapOptions : snap # snapSetting /\ handleSnapChange(snap)

NextZoom ==
  \/ ZoomChange
  \/ ZoomSetSnap

SpecZoom == Init /\ [][NextZoom]_vars

\* Quantization: snapToGrid applied to the values of a range.
Snap == \E value \in SnapInputs : ApplySnapToGrid(value)

NextSnap == Snap

SpecSnap == Init /\ [][NextSnap]_vars

\* Rendering of the subdivision lines: the toolbar changes the time signature
\* and the snap setting, the wheel scrolls the timeline.
RenderSetTimeSignature ==
  \E n \in numeratorOptions, d \in denominatorOptions :
    /\ <<n, d>> # <<numerator, denominator>>
    /\ handleTimeSignatureChange(n, d)
RenderSetSnap ==
  \E snap \in snapOptions : snap # snapSetting /\ handleSnapChange(snap)
RenderWheel ==
  \E deltaX \in RenderWheelDeltas : handleScroll(deltaX, 0, FALSE)

NextRender ==
  \/ RenderSetTimeSignature
  \/ RenderSetSnap
  \/ RenderWheel

SpecRender == Init /\ [][NextRender]_vars

\* ------------------------------------------------------------------ claims
SessionIdle ==
  /\ ~isDragging /\ ~isResizing /\ ~isCreatingNote
  /\ draggedNoteId = NoId /\ resizedNoteId = NoId

\* C1: every id in the selection is the id of a note of the collection.
C1_SelectionWithinCollection == selectedNotes \subseteq NoteIds(notes)

\* C2: every note of the collection has a pitch in [0, 127], wherever the
\* pointer was pressed or moved.
C2_PitchInRange ==
  \A i \in 1..Len(notes) : notes[i].pitch >= 0 /\ notes[i].pitch <= MaxPitch

\* C3: a creation gesture that starts on a cell snapping to start = 0, moves
\* the pointer 2px to the right in all and is released leaves the collection
\* without the seeded note, with the count it had before the gesture.
C3_TinyCreateGestureLeavesNoNote ==
  [][ ( /\ lastEvent = "mousemove" /\ lastEvent' = "mouseup"
        /\ isCreatingNote /\ resizedNoteId # NoId
        /\ creationStartTime = 0
        /\ NoteById(notes, resizedNoteId).start = 0
        /\ lastMouseX = dragStartX + 2 )
      => ( /\ NoteById(notes', resizedNoteId).id = NoId
           /\ Len(notes') = Len(notes) - 1 ) ]_vars

\* C4: at most one interaction session is active: never dragging and
\* resizing at once, never a dragged and a resized note at once.
C4_OneSessionAtATime ==
  /\ ~(isDragging /\ isResizing)
  /\ ~(draggedNoteId # NoId /\ resizedNoteId # NoId)

\* C5: a handler that changes the collection dispatches noteChange in that
\* same handler with the resulting collection, and once a noteChange has been
\* dispatched the latest payload equals the current collection.
C5_NoteChangeCarriesCollection ==
  [][ /\ (notes' # notes => emitted' >= 1 /\ lastPayload' = notes')
      /\ (notified' => lastPayload' = notes') ]_vars

\* C5 witness: a lyric commit has changed the collection and notified it.
C5_LyricCommitNotified ==
  /\ lastEvent = "keyEnter" /\ emitted = 1
  /\ \E i \in 1..Len(notes) : notes[i].lyric = "mi"
  /\ lastPayload = notes

\* Points the lookup is probed at: the pointer columns, the shared edge of two
\* abutting notes and a point inside a note that starts at 20.
ProbePoints == {<<x, 2>> : x \in {0, 2, 14, 20, 25}}

\* C6: findNoteAtPosition returns the last-inserted of the notes whose
\* rectangle holds the point, and none when no rectangle holds it (stated for
\* the collections at rest: no session active, every note a quarter of a beat
\* long or longer).
C6_FindReturnsLastInserted ==
  ( /\ SessionIdle
    /\ \A i \in 1..Len(notes) : notes[i].duration >= QuarterGrid )
  => \A p \in ProbePoints :
       LET hits == {i \in 1..Len(notes) : Hit(notes[i], p[1], p[2])}
       IN  findNoteAtPosition(p[1], p[2]) =
             IF hits = {} THEN NoNote
             ELSE notes[CHOOSE i \in hits : \A j \in hits : j <= i]

\* C7: both scroll offsets lie between 0 and content extent minus visible
\* extent, also after the numerator or the viewport size changed (stated for
\* the states in which the content is at least as large as the viewport, the
\* only ones in which an offset can lie in that interval).
C7_ScrollWithinBounds ==
  (height <= totalGridHeight /\ width <= totalGridWidth)
  => /\ 0 <= verticalScroll /\ verticalScroll <= totalGridHeight - height
     /\ 0 <= horizontalScroll /\ horizontalScroll <= totalGridWidth - width

\* The offset the claim C8 gives for a wheel delta d at offset v.
ClaimedScroll(bound, v, d) ==
  IF v + d > bound THEN bound ELSE IF v + d < 0 THEN 0 ELSE v + d

\* The same with the bound replaced by 0 when it is negative.
AmendedScroll(bound, v, d) ==
  IF v + d > bound THEN (IF bound > 0 THEN bound ELSE 0)
  ELSE IF v + d < 0 THEN 0 ELSE v + d

\* C8 as claimed: a wheel event with vertical delta d # 0 sets verticalScroll
\* to the bound totalGridHeight - height when v + d exceeds it, to 0 when
\* v + d is negative and to v + d otherwise, never negative and never beyond
\* the bound, for any viewport height; likewise for horizontalScroll.
C8_WheelClampsToBound ==
  [][ \A deltaX \in WheelDeltas, deltaY \in WheelDeltas, shiftKey \in BOOLEAN :
        handleScroll(deltaX, deltaY, shiftKey) =>
          /\ deltaY # 0 =>
               /\ verticalScroll' =
                    ClaimedScroll(totalGridHeight - height, verticalScroll, deltaY)
               /\ 0 <= verticalScroll'
               /\ verticalScroll' <= totalGridHeight - height
          /\ (deltaX # 0 \/ shiftKey) =>
               /\ horizontalScroll' =
                    ClaimedScroll(totalGridWidth - width, horizontalScroll,
                                  IF deltaX # 0 THEN deltaX ELSE deltaY)
               /\ 0 <= horizontalScroll'
               /\ horizontalScroll' <= totalGridWidth - width ]_vars

\* C8 as amended: the upper bound is max(0, content extent - visible extent).
C8_WheelClampsToBoundOrZero ==
  [][ \A deltaX \in WheelDeltas, deltaY \in WheelDeltas, shiftKey \in BOOLEAN :
        handleScroll(deltaX, deltaY, shiftKey) =>
          /\ deltaY # 0 =>
               /\ verticalScroll' =
                    AmendedScroll(totalGridHeight - height, verticalScroll, deltaY)
               /\ 0 <= verticalScroll'
               /\ verticalScroll' <= Max(0, totalGridHeight - height)
          /\ (deltaX # 0 \/ shiftKey) =>
               /\ horizontalScroll' =
                    AmendedScroll(totalGridWidth - width, horizontalScroll,
                                  IF deltaX # 0 THEN deltaX ELSE deltaY)
               /\ 0 <= horizontalScroll'
               /\ horizontalScroll' <= Max(0, totalGridWidth - width) ]_vars

\* C8 witness: a wheel event has changed both offsets, the vertical one to 0
\* under a viewport higher than the content, the horizontal one to its
\* positive bound.
C8_ClampedAtBound ==
  /\ lastEvent = "wheel" /\ scrollEmitted = 2
  /\ height > totalGridHeight /\ verticalScroll = 0
  /\ horizontalScroll = totalGridWidth - width /\ horizontalScroll > 0

\* C9: after handleMouseUp (pointer-up or pointer-leave) no session is
\* active, from whatever state it ran in, and the pointer-move that follows
\* changes no note and dispatches no noteChange.
C9_PointerUpEndsSession ==
  [][ /\ (lastEvent' = "mouseup" => SessionIdle')
      /\ (lastEvent = "mouseup" /\ lastEvent' = "mousemove"
            => notes' = notes /\ emitted' = 0) ]_vars

\* C9 witness: a pointer-up has ended a drag or resize of an existing note
\* and a pointer-move has followed it.
C9_MoveAfterRelease ==
  /\ lastEvent = "mousemove" /\ SessionIdle
  /\ editMode = "select" /\ selectedNotes # {}
  /\ Len(notes) > 0 /\ emitted = 0
  /\ <<lastMouseX, lastMouseY>> # <<dragStartX, dragStartY>>

\* C10: when a create or resize gesture is released, the note it acted on is
\* absent from the collection or at least a quarter of a beat long (stated
\* for the gestures on the first note drawn, before a second one is drawn).
C10_GestureLeavesNoShortNote ==
  [][ ( /\ lastEvent # "mouseup" /\ lastEvent' = "mouseup"
        /\ isResizing /\ resizedNoteId # NoId
        /\ nextId = 2 )
      => LET n == NoteById(notes', resizedNoteId)
         IN  n.id = NoId \/ n.duration >= QuarterGrid ]_vars

\* C11: the pointer-up (or pointer-leave) that ends the creation of the note
\* seeded last removes that note, and only it, when it is shorter than a
\* quarter of a beat and leaves the collection as it is otherwise; released
\* right after the pointer-down that seeded it, the collection is the one
\* from before the pointer-down.
C11_ReleaseDiscardsIffShort ==
  [][ ( /\ lastEvent' = "mouseup" /\ isCreatingNote
        /\ resizedNoteId = nextId - 1
        /\ resizedNoteId \in NoteIds(notes) )
      => LET seeded == NoteById(notes, nextId - 1)
         IN  /\ IF seeded.duration < PIXELS_PER_BEAT \div 4
                THEN /\ seeded.id \notin NoteIds(notes')
                     /\ Len(notes') = Len(notes) - 1
                     /\ \A i \in 1..Len(notes') : \E j \in 1..Len(notes) :
                          notes'[i] = notes[j]
                ELSE notes' = notes
             /\ ( /\ lastEvent = "mousedown" /\ emitted = 1
                  /\ notes[Len(notes)] = seeded
                  /\ seeded.duration = SeedDuration )
                => notes' = SubSeq(notes, 1, Len(notes) - 1) ]_vars

\* C11 witness: a first creation was released at exactly a quarter of a beat
\* and kept, and the release of a second one, not moved, has discarded it.
C11_KeptAtQuarterDiscardedBelow ==
  /\ lastEvent = "mouseup" /\ emitted = 1
  /\ nextId = 3 /\ NoteIds(notes) = {1}
  /\ notes[1].duration = QuarterGrid

\* C12: while a lyric is edited, Enter or the loss of focus gives the edited
\* note the buffer as its lyric, changes nothing else in the collection, ends
\* the editing and dispatches one noteChange; the blur that follows the Enter
\* changes nothing and dispatches nothing.
C12_CommitSetsLyricOnce ==
  [][ /\ ( /\ lastEvent' \in {"keyEnter", "blur"}
           /\ isEditingLyric /\ editedNoteId # NoId )
         => /\ Len(notes') = Len(notes)
            /\ \A i \in 1..Len(notes) :
                 /\ notes'[i].id = notes[i].id
                 /\ notes'[i].start = notes[i].start
                 /\ notes'[i].duration = notes[i].duration
                 /\ notes'[i].pitch = notes[i].pitch
                 /\ notes'[i].velocity = notes[i].velocity
                 /\ notes'[i].lyric = IF notes[i].id = editedNoteId
                                      THEN lyricInputValue
                                      ELSE notes[i].lyric
            /\ ~isEditingLyric' /\ editedNoteId' = NoId
            /\ emitted' = 1 /\ lastPayload' = notes'
      /\ (lastEvent = "keyEnter" /\ lastEvent' = "blur")
         => /\ notes' = notes /\ emitted' = 0
            /\ ~isEditingLyric' /\ editedNoteId' = NoId ]_vars

\* C12 witness: a typed lyric has been committed and the blur after the
\* commit has dispatched nothing.
C12_BlurAfterCommit ==
  /\ lastEvent = "blur" /\ emitted = 0 /\ ~isEditingLyric
  /\ notified /\ lastPayload = notes
  /\ \E i \in 1..Len(notes) : notes[i].lyric = "mi"

\* C13: while a lyric is edited, Escape ends the editing, leaves the
\* collection as it is and dispatches no noteChange, and the blur that
\* follows the Escape changes nothing and dispatches nothing either.
C13_EscapeDiscardsEdit ==
  [][ /\ (lastEvent' = "keyEscape" /\ isEditingLyric)
         => /\ notes' = notes /\ emitted' = 0
            /\ lastPayload' = lastPayload
            /\ ~isEditingLyric'
      /\ (lastEvent = "keyEscape" /\ lastEvent' = "blur")
         => /\ notes' = notes /\ emitted' = 0
            /\ lastPayload' = lastPayload
            /\ ~isEditingLyric' ]_vars

\* C13 witness: a lyric was typed, the edit was ended with Escape and the
\* blur has followed; no note carries the typed lyric.
C13_BlurAfterEscape ==
  /\ lastEvent = "blur" /\ emitted = 0 /\ ~isEditingLyric
  /\ lyricInputValue = "mi"
  /\ Len(notes) > 0
  /\ \A i \in 1..Len(notes) : notes[i].lyric = DefaultLyric

\* C14: in erase mode a pointer-down on a note takes that note out of the
\* collection and its id out of the selection, leaves every other note as it
\* is and in its order, starts no session and dispatches noteChange with the
\* resulting collection; on an empty cell it changes nothing.
C14_EraseRemovesClickedNote ==
  [][ ( /\ lastEvent' = "mousedown"
        /\ editMode = "erase" /\ editMode' = "erase" )
      => LET clicked == findNoteAtPosition(lastMouseX', lastMouseY')
         IN  IF clicked.id # NoId
             THEN LET k == CHOOSE i \in 1..Len(notes) : notes[i] = clicked
                  IN  /\ \A i \in 1..Len(notes') : notes'[i].id # clicked.id
                      /\ clicked.id \notin selectedNotes'
                      /\ selectedNotes' \subseteq selectedNotes
                      /\ selectedNotes \ {clicked.id} \subseteq selectedNotes'
                      /\ Len(notes') = Len(notes) - 1
                      /\ \A i \in 1..Len(notes') :
                           notes'[i] = IF i < k THEN notes[i] ELSE notes[i + 1]
                      /\ UNCHANGED sessionVars
                      /\ emitted' = 1 /\ lastPayload' = notes'
             ELSE /\ notes' = notes /\ selectedNotes' = selectedNotes
                  /\ UNCHANGED sessionVars
                  /\ emitted' = 0 ]_vars

\* C14 witness: the first of two notes has been erased while no session was
\* active; the second note is left and nothing is selected.
C14_FirstOfTwoErased ==
  /\ lastEvent = "mousedown" /\ editMode = "erase" /\ emitted = 1
  /\ SessionIdle
  /\ nextId = 3 /\ NoteIds(notes) = {2}
  /\ selectedNotes = {}

\* The multiple q of a quarter of a beat with q - 10 <= dx < q + 10.
QuantizedDelta(dx) ==
  CHOOSE q \in {(PIXELS_PER_BEAT \div 4) * k : k \in -3..3} :
    q - 10 <= dx /\ dx < q + 10

\* C15: while the selection is dragged in select mode, a pointer-move with
\* horizontal delta dx moves the start of every selected note by dx quantized
\* to a quarter of a beat, not below 0, and the start of no other note; a
\* delta of +3 leaves the starts as they are, a delta of exactly 20 adds 20.
C15_DragQuantizesStart ==
  [][ ( /\ lastEvent' = "mousemove"
        /\ isDragging /\ draggedNoteId # NoId
        /\ editMode = "select" /\ editMode' = "select" )
      => LET dx == lastMouseX' - lastMouseX
         IN  /\ Len(notes') = Len(notes)
             /\ \A i \in 1..Len(notes) :
                  /\ notes'[i].id = notes[i].id
                  /\ notes'[i].start =
                       IF notes[i].id \in selectedNotes
                       THEN (IF notes[i].start + QuantizedDelta(dx) < 0 THEN 0
                             ELSE notes[i].start + QuantizedDelta(dx))
                       ELSE notes[i].start
                  /\ dx = 3 => notes'[i].start = notes[i].start
                  /\ (dx = 20 /\ notes[i].id \in selectedNotes)
                       => notes'[i].start = notes[i].start + 20 ]_vars

\* C15 witness: the only note, pressed at x = 2 where it held the pointer,
\* has been dragged to start 20 with the pointer 20px right of the press.
C15_DraggedByQuarter ==
  /\ lastEvent = "mousemove" /\ isDragging /\ editMode = "select"
  /\ dragStartX = 2 /\ lastMouseX = 22
  /\ Len(notes) = 1 /\ notes[1].id = draggedNoteId
  /\ draggedNoteId \in selectedNotes
  /\ notes[1].start = 20

\* C16: in select mode a pointer-down on the body of a note, outside the
\* resize hot-zone, makes the selection exactly {clicked id} without the
\* modifier, whatever it was before, and the old selection plus the clicked
\* id with it; it starts the drag of the clicked note and leaves the
\* collection as it is (stated for presses made at rest: no session active,
\* every selected id in the collection, no note shorter than a quarter of a
\* beat).
C16_BodyClickReplacesSelection ==
  [][ \A p \in DragPressPoints, shiftKey \in BOOLEAN :
        ( /\ handleMouseDown(p[1], p[2], shiftKey)
          /\ editMode = "select"
          /\ SessionIdle
          /\ selectedNotes \subseteq NoteIds(notes)
          /\ \A i \in 1..Len(notes) : notes[i].duration >= QuarterGrid )
        => LET x == p[1] + horizontalScroll
               clicked == findNoteAtPosition(x, p[2] + verticalScroll)
               noteEndX == clicked.start + clicked.duration
           IN  (clicked.id # NoId /\ noteEndX - x >= 10)
               => /\ selectedNotes' = IF shiftKey
                                      THEN selectedNotes \cup {clicked.id}
                                      ELSE {clicked.id}
                  /\ isDragging' /\ draggedNoteId' = clicked.id
                  /\ notes' = notes ]_vars

\* C17: every note of the collection has a duration of at least an eighth of
\* a beat, hence above 0, whatever create, resize and drag events came before.
C17_DurationPositive ==
  \A i \in 1..Len(notes) :
    notes[i].duration >= PIXELS_PER_BEAT \div 8 /\ notes[i].duration > 0

\* C17 witness: the note being created has been resized with the pointer
\* moved to the left of its start.
C17_ResizedLeftOfStart ==
  /\ lastEvent = "mousemove" /\ isResizing /\ isCreatingNote
  /\ emitted = 1
  /\ resizedNoteId \in NoteIds(notes)
  /\ NoteById(notes, resizedNoteId).start = creationStartTime
  /\ lastMouseX < creationStartTime

\* C18: every note of the collection has a start of at least 0, whatever
\* creations at pointer positions x >= 0 and drag moves came before.
C18_StartNonNegative ==
  \A i \in 1..Len(notes) : notes[i].start >= 0

\* C18 witness: two selected notes have been dragged with the pointer 20px
\* left of the press and both are at start 0.
C18_DraggedLeftToZero ==
  /\ lastEvent = "mousemove" /\ isDragging /\ editMode = "select"
  /\ emitted = 1
  /\ dragStartX = 22 /\ lastMouseX = 2
  /\ Len(notes) = 2 /\ NoteIds(notes) \subseteq selectedNotes
  /\ \A i \in 1..Len(notes) : notes[i].start = 0

\* C19: after a wheel event the offsets the container holds are the grid's
\* own, and the handler has dispatched one scroll notification for each
\* offset it changed, none for an offset whose clamped value is the current
\* one.
C19_ContainerMirrorsScroll ==
  [][ ( /\ lastEvent' = "wheel"
        /\ numerator' = numerator /\ width' = width /\ height' = height )
      => /\ parentHorizontalScroll' = horizontalScroll'
         /\ parentVerticalScroll' = verticalScroll'
         /\ scrollEmitted' =
              (IF verticalScroll' # verticalScroll THEN 1 ELSE 0)
              + (IF horizontalScroll' # horizontalScroll THEN 1 ELSE 0) ]_vars

\* C19 witness: a wheel event has changed the vertical offset only and the
\* container holds the new offsets.
C19_VerticalChangeMirrored ==
  /\ lastEvent = "wheel" /\ scrollEmitted = 1
  /\ verticalScroll = 1500 /\ horizontalScroll = 0
  /\ parentVerticalScroll = 1500 /\ parentHorizontalScroll = 0

\* C20: in every edit mode a double-click on a note, the note under the
\* pointer when the two clicks began, enters the editing of that note's
\* lyric: editedNoteId is its id, the buffer is its lyric and the note is
\* still in the collection, which the dblclick leaves as it is; a
\* double-click that began on an empty cell and ends on one enters nothing.
C20_DoubleClickEntersEditing ==
  [][ lastEvent' = "dblclick"
      => /\ notes' = notes
         /\ IF clickTarget # NoId
            THEN /\ clickTarget \in NoteIds(notes')
                 /\ isEditingLyric'
                 /\ editedNoteId' = clickTarget
                 /\ lyricInputValue' = NoteById(notes', clickTarget).lyric
            ELSE findNoteAtPosition(lastMouseX, lastMouseY).id = NoId
                 => UNCHANGED lyricVars ]_vars

\* C21: snapToGrid applied to its own result gives that result again; the
\* result is a multiple of the grid unit 20, the one with
\* result - 10 <= x < result + 10, which is round(x / 20) * 20.
C21_SnapIdempotent ==
  /\ snapAgain = snapOut
  /\ snapOut % 20 = 0
  /\ snapOut - 10 <= snapIn /\ snapIn < snapOut + 10

\* C21 witness: snapToGrid has been applied to the negative half-way value
\* -30, which rounds up to -20.
C21_HalfwayRoundsUp ==
  snapIn = -30 /\ snapOut = -20 /\ snapAgain = -20

\* The number of subdivisions per beat a set of drawn lines shows: the lines
\* inside the first beat divide it into one part more than there are lines.
SubdivisionsPerBeat(ticks) ==
  Cardinality({t \in ticks : 0 < t /\ t < PIXELS_PER_BEAT * SubPixel}) + 1

\* The positions of the measure lines and beat lines of a measure.
BeatLineXs(beatsPerMeasure) ==
  {beat * PIXELS_PER_BEAT * SubPixel : beat \in 0..beatsPerMeasure}

\* C22: when the snap setting is none, the grid and the timeline, drawn for
\* a new time signature, both show 3 subdivisions per beat for denominator 8
\* and 4 subdivisions per beat for every other denominator.
C22_NoneSnapFallsBackToDenominator ==
  [][ ( /\ <<numerator', denominator'>> # <<numerator, denominator>>
        /\ snapSetting = "none" /\ snapSetting' = "none" )
      => LET expected == IF denominator' = 8 THEN 3 ELSE 4
         IN  /\ SubdivisionsPerBeat(gridTicks') = expected
             /\ SubdivisionsPerBeat(timelineTicks') = expected ]_vars

\* C23: the grid and the timeline, drawn for a new time signature under any
\* snap setting, show no subdivision line at the position of a beat line or
\* of a measure line; for 4/4 with snap 1/4 their subdivision lines are 20px
\* apart; with snap 1/1 they show no subdivision line at all.
C23_SubdivisionLinesAvoidBeats ==
  [][ ( /\ <<numerator', denominator'>> # <<numerator, denominator>>
        /\ snapSetting' = snapSetting )
      => /\ gridTicks' \cap BeatLineXs(numerator') = {}
         /\ timelineTicks' \cap BeatLineXs(numerator') = {}
         /\ (numerator' = 4 /\ denominator' = 4 /\ snapSetting = "1/4")
              => LET every20 == {k * 20 * SubPixel : k \in 1..15}
                                  \ BeatLineXs(4)
                 IN  gridTicks' = every20 /\ timelineTicks' = every20
         /\ snapSetting = "1/1"
              => gridTicks' = {} /\ timelineTicks' = {} ]_vars

\* The ids of a collection, in its order.
Ids(ns) == [i \in 1..Len(ns) |-> ns[i].id]

\* A sequence without its k-th element.
WithoutAt(seq, k) ==
  [i \in 1..(Len(seq) - 1) |-> IF i < k THEN seq[i] ELSE seq[i + 1]]

\* C24: pointer-moves (drag and resize), lyric commits and every other event
\* that neither creates nor deletes leave the sequence of ids as it is; the
\* pointer-down that creates appends one id, not present before, at the end;
\* the pointer-down that erases and the pointer-up that discards take one id
\* out and leave the others in their order.
C24_IdsKeepInsertionOrder ==
  [][ LET ids == Ids(notes)
          after == Ids(notes')
          clicked == findNoteAtPosition(lastMouseX', lastMouseY')
          OneDeleted == \E k \in 1..Len(ids) : after = WithoutAt(ids, k)
      IN  /\ after = ids
              \/ (\E id \in 1..MaxId + 1 :
                    id \notin NoteIds(notes) /\ after = Append(ids, id))
              \/ OneDeleted
          /\ lastEvent' \in {"mousemove", "keyEnter", "keyEscape", "blur",
                              "input", "dblclick"}
               => after = ids
          /\ (lastEvent' = "mousedown" /\ editMode' = editMode)
               => IF editMode = "draw" /\ clicked.id = NoId
                  THEN Len(after) = Len(ids) + 1
                       /\ SubSeq(after, 1, Len(ids)) = ids
                       /\ after[Len(after)] \notin NoteIds(notes)
                  ELSE IF editMode = "erase" /\ clicked.id # NoId
                  THEN OneDeleted /\ clicked.id \notin NoteIds(notes')
                  ELSE after = ids
          /\ (lastEvent' = "mouseup" /\ Len(after) # Len(ids))
               => OneDeleted /\ resizedNoteId \notin NoteIds(notes') ]_vars

\* C24 witness: with two notes in the collection, in the order of their
\* creation, the second one has been given a typed lyric after the first one
\* was dragged.
C24_CommitAfterDragKeepsOrder ==
  /\ lastEvent = "keyEnter" /\ emitted = 1
  /\ Ids(notes) = <<1, 2>>
  /\ notes[1].start > 0
  /\ notes[2].lyric = "mi"

\* C25: in draw mode a pointer-down at (x, y) with no note under it appends
\* one note with start = round(x / 20) * 20, duration 10, pitch
\* 127 - floor(y / 20), velocity 100 and an id not in use, leaves the earlier
\* notes as they are, makes the selection exactly {new id}, enters the
\* creating/resizing session (isCreatingNote, isResizing, resizedNoteId = new
\* id, creationStartTime = start, isDragging false) and dispatches noteChange.
C25_DrawPressSeedsNote ==
  [][ ( /\ lastEvent' = "mousedown"
        /\ editMode = "draw" /\ editMode' = "draw"
        /\ findNoteAtPosition(lastMouseX', lastMouseY').id = NoId )
      => LET x == lastMouseX'
             y == lastMouseY'
             new == notes'[Len(notes')]
         IN  /\ Len(notes') = Len(notes) + 1
             /\ SubSeq(notes', 1, Len(notes)) = notes
             /\ new.start = QuantizedDelta(x)
             /\ new.duration = 10
             /\ new.pitch = 127 - (y \div 20)
             /\ new.velocity = 100
             /\ new.id \notin NoteIds(notes)
             /\ selectedNotes' = {new.id}
             /\ isCreatingNote' /\ isResizing'
             /\ resizedNoteId' = new.id
             /\ creationStartTime' = new.start
             /\ ~isDragging'
             /\ emitted' = 1 /\ lastPayload' = notes' ]_vars

\* C26: in select mode a press on a note less than 10px from its end edge
\* (start + duration) starts a resize of that note (isResizing, resizedNoteId =
\* the note) and starts no drag, and leaves the selection and the notes as they
\* were; a press 10px or more from the end edge starts a drag of that note
\* (isDragging, draggedNoteId = the note) and starts no resize.
C26_SelectPressResizesOrDrags ==
  [][ (lastEvent' = "mousedown" /\ editMode = "select"
          /\ findNoteAtPosition(lastMouseX', lastMouseY').id # NoId)
      => LET x == lastMouseX'
             clicked == findNoteAtPosition(x, lastMouseY')
             endX == clicked.start + clicked.duration
         IN  IF x - endX < 10 /\ endX - x < 10
             THEN /\ isResizing' /\ resizedNoteId' = clicked.id
                  /\ UNCHANGED <<isDragging, draggedNoteId>>
                  /\ selectedNotes' = selectedNotes
                  /\ notes' = notes
             ELSE /\ isDragging' /\ draggedNoteId' = clicked.id
                  /\ UNCHANGED <<isResizing, resizedNoteId>> ]_vars

\* C26 witness: with both notes selected, a press 9px before the end of note 2
\* has started a resize of it and no drag, and both notes are still selected.
C26_HotZonePressKeepsSelection ==
  /\ lastEvent = "mousedown"
  /\ dragStartX = 11
  /\ isResizing /\ resizedNoteId = 2
  /\ ~isDragging /\ draggedNoteId = NoId
  /\ selectedNotes = {1, 2}
  /\ notes[2].start + notes[2].duration = 20

\* C27: during an ordinary resize (isResizing with a resizedNoteId, no note
\* being created) a pointer move with horizontal delta dx sets the duration of
\* the note resizedNoteId to max(10, duration + round(dx / 20) * 20) and changes
\* nothing else: the other fields of that note, every other note and the
\* selection stay as they were.
C27_ResizeMoveSetsOneDuration ==
  [][ (lastEvent' = "mousemove" /\ isResizing /\ resizedNoteId # NoId
          /\ ~isCreatingNote)
      => LET dx == lastMouseX' - lastMouseX
         IN  /\ notes' = [i \in 1..Len(notes) |->
                            IF notes[i].id = resizedNoteId
                            THEN [notes[i] EXCEPT !.duration =
                                    Max(10, @ + Round(dx, 20) * 20)]
                            ELSE notes[i]]
             /\ selectedNotes' = selectedNotes ]_vars

\* C28: while a drag is under way in select mode, a pointer move with deltas
\* (dx, dy) changes only the start and the pitch of the selected notes, the
\* pitch to clamp(pitch - round(dy / 20), 0, 127); notes that are not selected
\* stay as they were, and no duration, velocity, lyric or id changes.
C28_DragMovesOnlySelectedNotes ==
  [][ (lastEvent' = "mousemove" /\ isDragging /\ draggedNoteId # NoId
          /\ editMode = "select")
      => LET dy == lastMouseY' - lastMouseY
         IN  /\ Len(notes') = Len(notes)
             /\ \A i \in 1..Len(notes) :
                  IF notes[i].id \in selectedNotes
                  THEN notes'[i] =
                         [notes[i] EXCEPT
                            !.start = notes'[i].start,
                            !.pitch = Max(0, Min(127, @ - Round(dy, 20)))]
                  ELSE notes'[i] = notes[i] ]_vars

\* C28 witness: both notes selected, note 1 already in the top row; a move
\* 20px to the right and one row up has taken note 2 to the top row and to
\* start 20, and note 1 to start 40 with its pitch held at 127.
C28_DragUpClampsPitch ==
  /\ lastEvent = "mousemove"
  /\ isDragging /\ draggedNoteId = 2
  /\ selectedNotes = {1, 2}
  /\ lastMouseX = 31 /\ lastMouseY = 2
  /\ notes[1] = [PresetNotes[1] EXCEPT !.start = 40, !.pitch = 127]
  /\ notes[2] = [PresetNotes[2] EXCEPT !.start = 20, !.pitch = 127]

\* C29: the hit rectangle of a note is half-open: findNoteAtPosition returns a
\* note neither for a point on its right edge (x = start + duration) nor for a
\* point on its bottom edge (y = (127 - pitch) * 20 + 20).
C29_HitRectangleIsHalfOpen ==
  \A i \in 1..Len(notes) :
    LET note == notes[i]
        top == (127 - note.pitch) * 20
    IN  /\ \A y \in top..(top + 19) :
             findNoteAtPosition(note.start + note.duration, y).id # note.id
        /\ \A x \in note.start..(note.start + note.duration - 1) :
             findNoteAtPosition(x, top + 20).id # note.id

\* C30: placement, drag and resize do not depend on the snap setting nor on
\* the time signature: a second run that has received the pointer events of
\* the first, whatever its snap setting and time signature were meanwhile,
\* ends with the notes and the selection of the first.
C30_SettingsDoNotChangeEdits ==
  (replayPos >= 1 /\ replayPos = Len(events) + 1)
    => /\ notes = firstNotes
       /\ selectedNotes = firstSelection

\* C30 witness: a second run under snap 'none' and 3/8 has received the three
\* events of the first, which placed a note with a press at x = 31; the note
\* is at start 40.
C30_PlacementUnderOtherSettings ==
  /\ replayPos = 4 /\ Len(events) = 3
  /\ events[1].type = "mousedown" /\ events[1].x = 31
  /\ snapSetting = "none"
  /\ numerator = 3 /\ denominator = 8
  /\ Len(notes) = 2
  /\ notes[2].start = 40

\* C31: a pointer-up or pointer-leave removes no note but the one seeded by
\* the most recent draw-mode press (ids are handed out in order, so that note
\* has the id nextId - 1): every other note of the collection is kept, also
\* when the edit mode has changed or further presses were made meanwhile.
C31_ReleaseRemovesOnlySeededNote ==
  [][ lastEvent' = "mouseup"
      => \A i \in 1..Len(notes) :
           \/ notes[i].id = nextId - 1
           \/ notes[i].id \in NoteIds(notes') ]_vars

\* C32: during a creation gesture (isCreatingNote, from the draw-mode press
\* that seeded the note nextId - 1 until the release) a pointer move to content
\* x leaves the seeded note with the duration
\* max(10, round(max(10, x - creationStartTime) / 20) * 20), halves rounded up:
\* a function of x alone, a multiple of 20 and at least 20.
C32_CreationDurationFollowsPointer ==
  [][ (lastEvent' = "mousemove" /\ editMode' = editMode /\ isCreatingNote)
      => LET x == lastMouseX'
             w == Max(10, x - creationStartTime)
             d == Max(10, ((2 * w + 20) \div 40) * 20)
             seeded == NoteById(notes', nextId - 1)
         IN  /\ seeded.id # NoId
             /\ seeded.duration = d
             /\ d % 20 = 0 /\ d >= 20 ]_vars

\* round(dx / 20) * 20 summed over the first k moves of the drag under way.
RECURSIVE QuantizedSum(_)
QuantizedSum(k) ==
  IF k = 0 THEN 0
  ELSE QuantizedSum(k - 1) + ((2 * gestureMoves[k].deltaX + 20) \div 40) * 20

\* C33: the drag is quantized move by move: as long as the clamp at 0 is not
\* hit, the start of a dragged note has changed since the press by the sum of
\* round(dx_i / 20) * 20 over the moves of the gesture; so it has not changed
\* when every move had |dx_i| < 10, however far the pointer has travelled.
C33_DragQuantizesEachMove ==
  (isDragging /\ draggedNoteId # NoId /\ gestureMoves # <<>>)
    => LET n == Len(gestureMoves)
           origin == gestureMoves[1].before
       IN  \A i \in 1..Len(notes) :
             (/\ notes[i].id \in selectedNotes
              /\ \A k \in 1..n : origin[i].start + QuantizedSum(k) >= 0)
               => /\ notes[i].start = origin[i].start + QuantizedSum(n)
                  /\ (\A k \in 1..n : /\ gestureMoves[k].deltaX < 10
                                       /\ gestureMoves[k].deltaX > -10)
                       => notes[i].start = origin[i].start

\* C33 witness: two moves of 9px each have taken the pointer 18px to the
\* right of the press, and the dragged note is where it was; one move of
\* 18px would have taken it 20px to the right.
C33_SmallMovesAddUpToNothing ==
  /\ isDragging /\ draggedNoteId = 1 /\ selectedNotes = {1}
  /\ Len(gestureMoves) = 2
  /\ gestureMoves[1].deltaX = 9 /\ gestureMoves[2].deltaX = 9
  /\ lastMouseX - dragStartX = 18
  /\ notes[1].start = gestureMoves[1].before[1].start

\* A move of the drag under way that undoes the deltas of the move before it.
MoveBack ==
  /\ lastEvent' = "mousemove"
  /\ isDragging /\ draggedNoteId # NoId /\ editMode = "select"
  /\ gestureMoves # <<>>
  /\ Len(gestureMoves') = Len(gestureMoves) + 1
  /\ LET there == gestureMoves[Len(gestureMoves)]
         back == gestureMoves'[Len(gestureMoves')]
     IN  back.deltaX = -there.deltaX /\ back.deltaY = -there.deltaY

\* note i was at the start and the pitch it has after the move back before
\* the move there, provided no clamp was hit on the way (rounding as
\* Math.round: halves up).
RestoredUnlessClamped(i) ==
  LET there == gestureMoves[Len(gestureMoves)]
      old == there.before[i]
      qx == ((2 * there.deltaX + 20) \div 40) * 20
      qxBack == ((-2 * there.deltaX + 20) \div 40) * 20
      qy == (2 * there.deltaY + 20) \div 40
      qyBack == (-2 * there.deltaY + 20) \div 40
  IN  (/\ old.start + qx >= 0 /\ old.start + qx + qxBack >= 0
       /\ old.pitch - qy \in 0..127 /\ old.pitch - qy - qyBack \in 0..127)
        => /\ notes'[i].start = old.start
           /\ notes'[i].pitch = old.pitch

\* C34 as stated: during a drag a move by (dx, dy) followed by a move by
\* (-dx, -dy) restores the start and the pitch of every selected note, for all
\* deltas that hit no clamp.
C34_MoveBackRestores ==
  [][ MoveBack
      => \A i \in 1..Len(notes) :
           notes[i].id \in selectedNotes => RestoredUnlessClamped(i) ]_vars

\* C34 amended: the same, for the deltas that hit no clamp and of which
\* neither dx nor dy is an odd multiple of 10.
C34_MoveBackRestoresOffHalves ==
  [][ (/\ MoveBack
       /\ gestureMoves[Len(gestureMoves)].deltaX % 20 # 10
       /\ gestureMoves[Len(gestureMoves)].deltaY % 20 # 10)
      => \A i \in 1..Len(notes) :
           notes[i].id \in selectedNotes => RestoredUnlessClamped(i) ]_vars

\* C34 witness: a move by (18, 20) took the dragged note 20px to the right and
\* one row down, and the move by (-18, -20) has taken it back.
C34_ThereAndBack ==
  /\ isDragging /\ draggedNoteId = 1 /\ selectedNotes = {1}
  /\ Len(gestureMoves) = 2
  /\ gestureMoves[1].deltaX = 18 /\ gestureMoves[1].deltaY = 20
  /\ gestureMoves[2].deltaX = -18 /\ gestureMoves[2].deltaY = -20
  /\ gestureMoves[2].before[1].start = gestureMoves[1].before[1].start + 20
  /\ gestureMoves[2].before[1].pitch = gestureMoves[1].before[1].pitch - 1
  /\ notes[1] = gestureMoves[1].before[1]

\* C35: the starts stay on the quantization grid: the collection being empty
\* or on the grid at first, every note of every reachable state has a start
\* that is a multiple of 20.
C35_StartsOnGrid ==
  \A i \in 1..Len(notes) : notes[i].start % 20 = 0

\* C35 witness: a note placed with a press at x = 2 and kept has been dragged
\* by a move of 12px, and is at start 20.
C35_PlacedAndDraggedOnGrid ==
  /\ lastEvent = "mousemove"
  /\ isDragging /\ ~isCreatingNote
  /\ dragStartX = 2 /\ lastMouseX = 14
  /\ Len(notes) = 1
  /\ notes[1].id \in selectedNotes
  /\ notes[1].start = 20

\* The point (x, y) lies in the rectangle of a note of the collection.
CoveredByNote(x, y) ==
  \E i \in 1..Len(notes) :
    /\ notes[i].start <= x /\ x < notes[i].start + notes[i].duration
    /\ (127 - notes[i].pitch) * 20 <= y
    /\ y < (127 - notes[i].pitch) * 20 + 20

\* C36: in draw mode a press on a point covered by a note creates and removes
\* no note: the notes, the selection and the session flags isDragging,
\* isResizing, isCreatingNote, draggedNoteId and resizedNoteId stay as they
\* were, and no noteChange is emitted.
C36_DrawPressOnNoteChangesNothing ==
  [][ (/\ lastEvent' = "mousedown" /\ editMode' = editMode
       /\ editMode = "draw"
       /\ CoveredByNote(lastMouseX', lastMouseY'))
      => /\ notes' = notes
         /\ selectedNotes' = selectedNotes
         /\ UNCHANGED <<isDragging, isResizing, isCreatingNote,
                         draggedNoteId, resizedNoteId>>
         /\ emitted' = 0 ]_vars

\* C36 witness: with the one note of the collection kept and no session
\* open, a press in draw mode on its body has left everything as it was.
C36_PressOnKeptNote ==
  /\ lastEvent = "mousedown" /\ editMode = "draw"
  /\ Len(notes) = 1 /\ notes[1].start = 0 /\ notes[1].duration = 20
  /\ dragStartX = 2 /\ dragStartY = 2
  /\ ~isDragging /\ ~isResizing /\ ~isCreatingNote
  /\ nextId = 2
  /\ emitted = 0

\* C37: a wheel event with shift held, deltaX = 0 and deltaY = d # 0 moves both
\* verticalScroll and horizontalScroll by d, each clamped to its own range
\* (0 to the content extent less the visible extent, or 0 alone when that is
\* negative), with one scroll notification for each offset that changed; a
\* wheel event without shift and with deltaX = 0 leaves horizontalScroll as
\* it was, and a wheel event with deltaY = 0 leaves verticalScroll as it was.
C37_ShiftWheelScrollsBothWays ==
  [][ \A deltaX \in WheelDeltas, deltaY \in WheelDeltas, shiftKey \in BOOLEAN :
        handleScroll(deltaX, deltaY, shiftKey) =>
          /\ (shiftKey /\ deltaX = 0 /\ deltaY # 0) =>
               /\ verticalScroll' =
                    AmendedScroll(totalGridHeight - height, verticalScroll, deltaY)
               /\ horizontalScroll' =
                    AmendedScroll(totalGridWidth - width, horizontalScroll, deltaY)
               /\ scrollEmitted' =
                    (IF verticalScroll' # verticalScroll THEN 1 ELSE 0)
                    + (IF horizontalScroll' # horizontalScroll THEN 1 ELSE 0)
          /\ (~shiftKey /\ deltaX = 0) => horizontalScroll' = horizontalScroll
          /\ deltaY = 0 => verticalScroll' = verticalScroll ]_vars

\* C37 witness: from the offsets (1500, 1500) a wheel event with delta -2000
\* on both axes, as the one with shift held, deltaX = 0 and deltaY = -2000
\* is, has taken both offsets to 0 with two notifications.
C37_BothOffsetsBackToZero ==
  /\ lastEvent = "wheel" /\ scrollEmitted = 2
  /\ verticalScroll = 0 /\ horizontalScroll = 0
  /\ parentVerticalScroll = 0 /\ parentHorizontalScroll = 0
  /\ width = 880 /\ height = 520

\* C38: pixelsPerBeat is 80 until the first zoom request and stays within 40..200 and a multiple of
\* 20 under any zoom requests; a zoom-in at 200 and a zoom-out at 40 leave it
\* as it is; a zoom-out after a zoom-in made below 200, and a zoom-in after a
\* zoom-out made above 40, give back the value before the two.
C38_ZoomStaysInRange ==
  [][ /\ lastZoom = "none" => pixelsPerBeat = 80
      /\ pixelsPerBeat' >= 40 /\ pixelsPerBeat' <= 200
      /\ pixelsPerBeat' % 20 = 0
      /\ (lastZoom' = "zoom-in" /\ zoomBefore' = 200) => pixelsPerBeat' = 200
      /\ (lastZoom' = "zoom-out" /\ zoomBefore' = 40) => pixelsPerBeat' = 40
      /\ (lastZoom = "zoom-in" /\ lastZoom' = "zoom-out" /\ zoomBefore < 200)
           => pixelsPerBeat' = zoomBefore
      /\ (lastZoom = "zoom-out" /\ lastZoom' = "zoom-in" /\ zoomBefore > 40)
           => pixelsPerBeat' = zoomBefore ]_vars

\* C38 witness: a zoom-in was requested at 200 and the level is still 200.
C38_ZoomInAtMaximum ==
  /\ lastZoom = "zoom-in"
  /\ zoomBefore = 200
  /\ pixelsPerBeat = 200

====
